---------------------------- MODULE Spec2Model ----------------------------
(***************************************************************************)
(* Model of the auto-trading core of src/src/services/autoTrading.ts.      *)
(*                                                                         *)
(* AutoTradingService: the enabled flag, the order ledger (orders), the    *)
(* exchange tag of the credentials, and the executeDemoTrade calls that    *)
(* are suspended on their 100 ms timer.  Date.now() is the variable now.   *)
(*                                                                         *)
(* Representation of numbers:                                              *)
(*   fees          in 1/1000 of a quote unit  (price * quantity * 0.001)   *)
(*   executedPrice in 1/10000 of a quote unit (price + slip * price/10000) *)
(* An optional field of OrderResult is a set: {} when absent, {v} when     *)
(* present.  An orderId `prefix_${Date.now()}` is the pair <<prefix, t>>.  *)
(***************************************************************************)
EXTENDS Integers, Sequences, FiniteSets, Bags, TLC

VARIABLES
    credentials,   \* AutoTradingService.credentials (only .exchange is read)
    isEnabled,     \* AutoTradingService.isEnabled
    orders,        \* AutoTradingService.orders
    suspended,     \* executeDemoTrade calls awaiting their timer, oldest first
    now,           \* the clock read by Date.now()
    ret,           \* what the last operation returned or raised
    lastToggle,    \* history: the most recent of enable()/disable(), or "none"
    cache,         \* MarketDataProvider.cache
    subscribers,   \* MarketDataProvider.subscribers
    intervals,     \* MarketDataProvider.intervals
    timers,        \* the runtime's active setInterval timers
    inflight,      \* bag of the fetchMarketData calls awaiting their response
    handles,       \* bag of the unsubscribe closures returned so far
    mdRet,         \* what the last MarketDataProvider operation did
    issued,        \* history: per symbol, the outstanding requests in the order
                   \* they were issued
    wsConnections, \* MarketDataService.wsConnections
    sockets,       \* the WebSockets subscribeToPrice has created, oldest first
    wsRet,         \* what the last MarketDataService operation did
    args,          \* the arguments of a call of a static function
    out            \* what that call returned

atsVars == <<credentials, isEnabled, orders, suspended, ret, lastToggle>>

mdVars == <<cache, subscribers, intervals, timers, inflight, handles, mdRet>>

wsVars == <<wsConnections, sockets, wsRet>>

fnVars == <<args, out>>

\* what the operations of AutoTradingService leave alone
nonAtsVars == <<cache, subscribers, intervals, timers, inflight, handles, mdRet,
                issued, wsConnections, sockets, wsRet, args, out>>

\* what the operations of MarketDataProvider leave alone
nonMdVars == <<credentials, isEnabled, orders, suspended, ret, lastToggle, now,
               issued, wsConnections, sockets, wsRet, args, out>>

vars == <<credentials, isEnabled, orders, suspended, now, ret, lastToggle,
          cache, subscribers, intervals, timers, inflight, handles, mdRet,
          issued, wsConnections, sockets, wsRet, args, out>>

---------------------------------------------------------------------------
(* Bounds of the model *)

MaxOrders == 2      \* ledger entries plus suspended executions
MaxClock == 1       \* largest value of the clock
MaxInflight == 2    \* fetchMarketData calls awaiting their response
MaxSubscribes == 2  \* subscribe calls
MaxRiskPrice == 3   \* largest of the small prices given to RiskManagementService
MaxRiskQuantity == 2  \* largest quantity given to RiskManagementService

---------------------------------------------------------------------------
(* Data model: TradingSignal, ExchangeCredentials, OrderResult *)

Symbols == {"BTCUSDT"}
Actions == {"buy", "sell", "hold"}
Prices == {100}
Quantities == {2}
StopLosses == {95}
TakeProfits == {110}

TradingSignal ==
    [symbol : Symbols, action : Actions, price : Prices, quantity : Quantities,
     stopLoss : StopLosses, takeProfit : TakeProfits,
     confidence : {80}, timestamp : {0}]

SupportedExchanges == {"demo", "binance", "bybit", "okx"}
\* a tag outside the ExchangeCredentials union, as an untyped caller can pass it
Exchanges == SupportedExchanges \cup {"kraken"}

Absent == {}
Present(v) == {v}

\* (Math.random() - 0.5) * price * 0.001, in 1/10000 of the price:
\* Math.random() is in [0, 1), so the factor is in [-5, 5).  The sampled
\* factors; no property below reads the amount of the slippage.
Slips == {-5}

\* an id the service never issued
UnknownId == <<"demo", MaxClock + 1>>

Range(s) == {s[i] : i \in 1..Len(s)}

(* Data model: MarketData and the 24hr ticker response *)

MDSymbols == {"BTCUSDT", "ETHUSDT"}

\* subscriber callbacks; whether one throws is decided at each notification
Callbacks == {"f", "g"}

\* who called fetchMarketData: the refresh timer or other code
Origins == {"tick", "call"}

\* result.lastPrice as the exchange sends it: a string
LastPrices == {"100", "101"}

parseFloat(str) ==
    CASE str = "100" -> 100
      [] str = "101" -> 101

\* how a request ends: fetch() rejects, response.ok is false, response.json()
\* rejects, or a ticker payload arrives
Responses ==
    {[kind |-> k, lastPrice |-> ""] : k \in {"networkError", "httpError", "badJson"}}
        \cup {[kind |-> "ok", lastPrice |-> p] : p \in LastPrices}

\* op: the operation; outcome: "resolved", "rejected" (the error reaches the
\* caller), "absorbed" (the refresh timer's .catch), "pending" or "none";
\* data: the MarketData returned ({} when none); invoked: the callbacks
\* notifySubscribers called, in order.
MdRet(op, outcome, data, invoked) ==
    [op |-> op, outcome |-> outcome, data |-> data, invoked |-> invoked]

---------------------------------------------------------------------------
(* Results of operations *)

NoSignal ==
    [symbol |-> "", action |-> "none", price |-> 0, quantity |-> 0,
     stopLoss |-> 0, takeProfit |-> 0, confidence |-> 0, timestamp |-> 0]

NoId == <<"", 0>>

\* op: the operation; outcome: "value", "suspended", "NotEnabled",
\* "UnsupportedExchange" or "none"; path: the branch executeSignal took;
\* order: the OrderResult returned ({} when none); flag: a boolean result;
\* arg: the orderId argument; prev: the status cancelOrder overwrote.
Ret(op, outcome, path, signal, order, flag, arg, prev) ==
    [op |-> op, outcome |-> outcome, path |-> path, signal |-> signal,
     order |-> order, flag |-> flag, arg |-> arg, prev |-> prev]

\* what a MarketDataService operation did: op on the socket-th WebSocket;
\* price: the number handed to the callback ({} when none)
WsRet(op, socket, price) == [op |-> op, socket |-> socket, price |-> price]

PlainRet(op) == Ret(op, "none", "none", NoSignal, {}, FALSE, NoId, "none")

---------------------------------------------------------------------------
(* RiskManagementService *)

\* Math.abs
Abs(x) == IF x < 0 THEN -x ELSE x

\* the default of the maxRiskPercentage parameter of isValidTrade
DefaultMaxRiskPercentage == 2

\* isValidTrade without the bound on the loss at the stop
isValidTrade_NotionalOnly(signal, accountBalance, maxRiskPercentage) ==
    signal.price * signal.quantity <= accountBalance

\* isValidTrade. riskAmount is accountBalance * (maxRiskPercentage / 100); the
\* comparison is made on both sides times 100, which for integer arguments
\* and the percentages used here gives what the floating-point one gives.
isValidTrade(signal, accountBalance, maxRiskPercentage) ==
    LET riskAmountTimes100 == accountBalance * maxRiskPercentage
        tradeValue == signal.price * signal.quantity
        maxLoss == Abs(signal.price - signal.stopLoss) * signal.quantity
    IN  maxLoss * 100 <= riskAmountTimes100 /\ tradeValue <= accountBalance

RECURSIVE GCD(_, _)
GCD(a, b) == IF b = 0 THEN a ELSE GCD(b, a % b)

\* The number x / y of JavaScript, for integers x and y >= 0: the fraction in
\* lowest terms, Infinity or -Infinity for a division of a non-zero number by
\* zero, NaN for 0 / 0.
Quotient(x, y) ==
    IF y # 0
      THEN [kind |-> "finite", num |-> x \div GCD(Abs(x), y), den |-> y \div GCD(Abs(x), y)]
      ELSE IF x > 0 THEN [kind |-> "Infinity", num |-> 1, den |-> 0]
      ELSE IF x < 0 THEN [kind |-> "-Infinity", num |-> -1, den |-> 0]
      ELSE [kind |-> "NaN", num |-> 0, den |-> 0]

\* calculatePositionSize with the stop distance taken signed
calculatePositionSize_Signed(accountBalance, riskPercentage, entryPrice, stopLoss) ==
    IF entryPrice >= stopLoss
      THEN Quotient(accountBalance * riskPercentage, 100 * (entryPrice - stopLoss))
      ELSE Quotient(-(accountBalance * riskPercentage), 100 * (stopLoss - entryPrice))

\* calculatePositionSize: riskAmount / riskPerUnit, where riskAmount is
\* accountBalance * (riskPercentage / 100)
calculatePositionSize(accountBalance, riskPercentage, entryPrice, stopLoss) ==
    LET riskAmountTimes100 == accountBalance * riskPercentage
        riskPerUnit == Abs(entryPrice - stopLoss)
    IN  Quotient(riskAmountTimes100, 100 * riskPerUnit)

\* calculateRiskReward with risk and reward exchanged
calculateRiskReward_Inverted(entryPrice, stopLoss, takeProfit) ==
    Quotient(Abs(entryPrice - stopLoss), Abs(takeProfit - entryPrice))

\* calculateRiskReward
calculateRiskReward(entryPrice, stopLoss, takeProfit) ==
    LET risk == Abs(entryPrice - stopLoss)
        reward == Abs(takeProfit - entryPrice)
    IN  Quotient(reward, risk)

\* the arguments given to RiskManagementService: small prices and those of
\* the documented examples; balances around the trade values, the multiples
\* of 50 (where 2% is a whole number) and those of the examples
RiskPrices == (0..MaxRiskPrice) \cup {95, 100, 110}

RiskQuantities == 0..MaxRiskQuantity

AccountBalances ==
    (0..(MaxRiskPrice * MaxRiskQuantity))
        \cup {50 * k : k \in 0..(MaxRiskPrice * MaxRiskQuantity)}
        \cup {1000, 10000}

\* maxRiskPercentage as the caller passes it: {} when omitted
MaxRiskPercentages == {{}, {1}, {2}}

IsValidTradeArgs ==
    [fn : {"isValidTrade"}, price : RiskPrices, stopLoss : RiskPrices,
     quantity : RiskQuantities, accountBalance : AccountBalances,
     maxRiskPercentage : MaxRiskPercentages]

RiskPercentages == {1, 2}

PositionSizeArgs ==
    [fn : {"calculatePositionSize"}, accountBalance : AccountBalances,
     riskPercentage : RiskPercentages, entryPrice : RiskPrices,
     stopLoss : RiskPrices]

RiskRewardArgs ==
    [fn : {"calculateRiskReward"}, entryPrice : RiskPrices, stopLoss : RiskPrices,
     takeProfit : RiskPrices]

calculatePositionSizeCall ==
    /\ args.fn = "calculatePositionSize"
    /\ out = {}
    /\ out' = {calculatePositionSize(args.accountBalance, args.riskPercentage,
                                     args.entryPrice, args.stopLoss)}
    /\ UNCHANGED <<atsVars, now, mdVars, issued, wsVars, args>>

calculateRiskRewardCall ==
    /\ args.fn = "calculateRiskReward"
    /\ out = {}
    /\ out' = {calculateRiskReward(args.entryPrice, args.stopLoss, args.takeProfit)}
    /\ UNCHANGED <<atsVars, now, mdVars, issued, wsVars, args>>

\* the percentage isValidTrade works with: the default when none is passed
maxRiskPercentageOf(given) ==
    IF given = {} THEN DefaultMaxRiskPercentage ELSE CHOOSE p \in given : TRUE

isValidTradeCall ==
    /\ args.fn = "isValidTrade"
    /\ out = {}
    /\ out' = {isValidTrade([price |-> args.price, quantity |-> args.quantity,
                             stopLoss |-> args.stopLoss],
                            args.accountBalance,
                            maxRiskPercentageOf(args.maxRiskPercentage))}
    /\ UNCHANGED <<atsVars, now, mdVars, issued, wsVars, args>>

---------------------------------------------------------------------------
(* AutoTradingService *)

Init ==
    /\ credentials \in [exchange : Exchanges]
    /\ isEnabled = FALSE
    /\ orders = <<>>
    /\ suspended = <<>>
    /\ now = 0
    /\ ret = PlainRet("new")
    /\ lastToggle = "none"
    /\ cache = [s \in MDSymbols |-> {}]
    /\ subscribers = [s \in MDSymbols |-> {}]
    /\ intervals = [s \in MDSymbols |-> {}]
    /\ timers = {}
    /\ inflight = EmptyBag
    /\ handles = EmptyBag
    /\ mdRet = MdRet("new", "none", {}, <<>>)
    /\ issued = [s \in MDSymbols |-> <<>>]
    /\ wsConnections = [s \in MDSymbols |-> {}]
    /\ sockets = <<>>
    /\ wsRet = WsRet("new", 0, {})
    /\ args = [fn |-> "none"]
    /\ out = {}

\* mutant of enable: flips the flag instead of setting it
enable_Toggle ==
    /\ isEnabled' = ~isEnabled
    /\ lastToggle' = "enable"
    /\ ret' = PlainRet("enable")
    /\ UNCHANGED <<credentials, orders, suspended, now>>

enable ==
    /\ isEnabled' = TRUE
    /\ lastToggle' = "enable"
    /\ ret' = PlainRet("enable")
    /\ UNCHANGED <<credentials, orders, suspended, now>>

\* mutant of disable: the executions in their simulated latency are dropped
disable_CancelsInflight ==
    /\ isEnabled' = FALSE
    /\ lastToggle' = "disable"
    /\ ret' = PlainRet("disable")
    /\ suspended' = <<>>
    /\ UNCHANGED <<credentials, orders, now>>

disable ==
    /\ isEnabled' = FALSE
    /\ lastToggle' = "disable"
    /\ ret' = PlainRet("disable")
    /\ UNCHANGED <<credentials, orders, suspended, now>>

\* mutant of createHoldOrder: copies the signal's quantity
createHoldOrder_SignalQuantity(signal) ==
    [orderId |-> <<"hold", now>>,
     symbol |-> signal.symbol,
     side |-> "buy",
     quantity |-> signal.quantity,
     price |-> signal.price,
     status |-> "cancelled",
     timestamp |-> now,
     fees |-> Absent, executedQty |-> Absent, executedPrice |-> Absent]

\* mutant of createHoldOrder: the order is left pending
createHoldOrder_Pending(signal) ==
    [orderId |-> <<"hold", now>>,
     symbol |-> signal.symbol,
     side |-> "buy",
     quantity |-> 0,
     price |-> signal.price,
     status |-> "pending",
     timestamp |-> now,
     fees |-> Absent, executedQty |-> Absent, executedPrice |-> Absent]

createHoldOrder(signal) ==
    [orderId |-> <<"hold", now>>,
     symbol |-> signal.symbol,
     side |-> "buy",
     quantity |-> 0,
     price |-> signal.price,
     status |-> "cancelled",
     timestamp |-> now,
     fees |-> Absent, executedQty |-> Absent, executedPrice |-> Absent]

\* mutant of demoOrder: the fee leaves out the quantity
demoOrder_FeesOnPrice(signal, status, slip) ==
    [orderId |-> <<"demo", now>>,
     symbol |-> signal.symbol,
     side |-> signal.action,
     quantity |-> signal.quantity,
     price |-> signal.price,
     status |-> status,
     timestamp |-> now,
     fees |-> Present(signal.price),
     executedQty |-> Present(signal.quantity),
     executedPrice |-> Present(signal.price * 10000 + slip * signal.price)]

\* the order executeDemoTrade builds once its timer has fired
demoOrder(signal, status, slip) ==
    [orderId |-> <<"demo", now>>,
     symbol |-> signal.symbol,
     side |-> signal.action,
     quantity |-> signal.quantity,
     price |-> signal.price,
     status |-> status,
     timestamp |-> now,
     fees |-> Present(signal.price * signal.quantity),
     executedQty |-> Present(signal.quantity),
     executedPrice |-> Present(signal.price * 10000 + slip * signal.price)]

\* the try block of executeBinanceTrade; nothing in it throws
binanceOrder(signal) ==
    [orderId |-> <<"binance", now>>,
     symbol |-> signal.symbol,
     side |-> signal.action,
     quantity |-> signal.quantity,
     price |-> signal.price,
     status |-> "filled",
     timestamp |-> now,
     fees |-> Present(signal.price * signal.quantity),
     executedQty |-> Present(signal.quantity),
     executedPrice |-> Present(signal.price * 10000)]

\* executeDemoTrade up to its await: the call is suspended on the timer
executeDemoTrade(signal, path) ==
    /\ Len(orders) + Len(suspended) < MaxOrders
    /\ suspended' = Append(suspended, signal)
    /\ ret' = Ret("executeSignal", "suspended", path, signal, {}, FALSE, NoId, "none")
    /\ UNCHANGED orders

executeBinanceTrade(signal) ==
    /\ ret' = Ret("executeSignal", "value", "binance", signal,
                  {binanceOrder(signal)}, FALSE, NoId, "none")
    /\ UNCHANGED <<orders, suspended>>

\* mutant of executeRealTrade: the okx case is missing
executeRealTrade_NoOkx(signal) ==
    CASE credentials.exchange = "binance" -> executeBinanceTrade(signal)
      [] credentials.exchange = "bybit" -> executeDemoTrade(signal, "bybit")
      [] OTHER ->
            /\ ret' = Ret("executeSignal", "UnsupportedExchange", "unsupported",
                          signal, {}, FALSE, NoId, "none")
            /\ UNCHANGED <<orders, suspended>>

executeRealTrade(signal) ==
    CASE credentials.exchange = "binance" -> executeBinanceTrade(signal)
      [] credentials.exchange = "bybit" -> executeDemoTrade(signal, "bybit")
      [] credentials.exchange = "okx" -> executeDemoTrade(signal, "okx")
      [] OTHER ->
            /\ ret' = Ret("executeSignal", "UnsupportedExchange", "unsupported",
                          signal, {}, FALSE, NoId, "none")
            /\ UNCHANGED <<orders, suspended>>

\* mutant of executeSignal: tests for hold before the enabled flag
executeSignal_HoldFirst(signal) ==
    /\ IF signal.action = "hold"
         THEN /\ ret' = Ret("executeSignal", "value", "hold", signal,
                            {createHoldOrder(signal)}, FALSE, NoId, "none")
              /\ UNCHANGED <<orders, suspended>>
         ELSE IF ~isEnabled
         THEN /\ ret' = Ret("executeSignal", "NotEnabled", "rejected", signal,
                            {}, FALSE, NoId, "none")
              /\ UNCHANGED <<orders, suspended>>
         ELSE IF credentials.exchange = "demo"
         THEN executeDemoTrade(signal, "demo")
         ELSE executeRealTrade(signal)
    /\ UNCHANGED <<credentials, isEnabled, now, lastToggle>>

\* the account balances a caller could hold a signal against: the USDT balance
\* getAccountBalance reports, and two smaller ones
RiskBalances == {100, 400, 1000}

\* an executeSignal that turns away what isValidTrade rejects
executeSignal_RiskChecked(signal) ==
    /\ IF ~isEnabled
         THEN /\ ret' = Ret("executeSignal", "NotEnabled", "rejected", signal,
                            {}, FALSE, NoId, "none")
              /\ UNCHANGED <<orders, suspended>>
         ELSE IF signal.action = "hold"
         THEN /\ ret' = Ret("executeSignal", "value", "hold", signal,
                            {createHoldOrder(signal)}, FALSE, NoId, "none")
              /\ UNCHANGED <<orders, suspended>>
         ELSE IF \E balance \in RiskBalances :
                    ~isValidTrade(signal, balance, DefaultMaxRiskPercentage)
         THEN /\ ret' = Ret("executeSignal", "InvalidTrade", "rejected", signal,
                            {}, FALSE, NoId, "none")
              /\ UNCHANGED <<orders, suspended>>
         ELSE IF credentials.exchange = "demo"
         THEN executeDemoTrade(signal, "demo")
         ELSE executeRealTrade(signal)
    /\ UNCHANGED <<credentials, isEnabled, now, lastToggle>>

\* mutant of executeSignal: the exchange tag is tested before the signal
executeSignal_ExchangeFirst(signal) ==
    /\ IF ~isEnabled
         THEN /\ ret' = Ret("executeSignal", "NotEnabled", "rejected", signal,
                            {}, FALSE, NoId, "none")
              /\ UNCHANGED <<orders, suspended>>
         ELSE IF credentials.exchange \notin SupportedExchanges
         THEN /\ ret' = Ret("executeSignal", "UnsupportedExchange", "unsupported",
                            signal, {}, FALSE, NoId, "none")
              /\ UNCHANGED <<orders, suspended>>
         ELSE IF signal.action = "hold"
         THEN /\ ret' = Ret("executeSignal", "value", "hold", signal,
                            {createHoldOrder(signal)}, FALSE, NoId, "none")
              /\ UNCHANGED <<orders, suspended>>
         ELSE IF credentials.exchange = "demo"
         THEN executeDemoTrade(signal, "demo")
         ELSE executeRealTrade(signal)
    /\ UNCHANGED <<credentials, isEnabled, now, lastToggle>>

executeSignal(signal) ==
    /\ IF ~isEnabled
         THEN /\ ret' = Ret("executeSignal", "NotEnabled", "rejected", signal,
                            {}, FALSE, NoId, "none")
              /\ UNCHANGED <<orders, suspended>>
         ELSE IF signal.action = "hold"
         THEN /\ ret' = Ret("executeSignal", "value", "hold", signal,
                            {createHoldOrder(signal)}, FALSE, NoId, "none")
              /\ UNCHANGED <<orders, suspended>>
         ELSE IF credentials.exchange = "demo"
         THEN executeDemoTrade(signal, "demo")
         ELSE executeRealTrade(signal)
    /\ UNCHANGED <<credentials, isEnabled, now, lastToggle>>

\* mutant of executeDemoTradeResume: unshift instead of push
executeDemoTradeResume_Unshift(status, slip) ==
    /\ suspended # <<>>
    /\ LET signal == Head(suspended)
           order == demoOrder(signal, status, slip)
       IN  /\ orders' = <<order>> \o orders
           /\ ret' = Ret("executeDemoTrade", "value", "demo", signal,
                         {order}, FALSE, NoId, "none")
    /\ suspended' = Tail(suspended)
    /\ UNCHANGED <<credentials, isEnabled, now, lastToggle>>

\* mutant of executeDemoTradeResume: a failed order is returned unrecorded
executeDemoTradeResume_DropFailed(status, slip) ==
    /\ suspended # <<>>
    /\ LET signal == Head(suspended)
           order == demoOrder(signal, status, slip)
       IN  /\ orders' = IF status = "failed" THEN orders ELSE Append(orders, order)
           /\ ret' = Ret("executeDemoTrade", "value", "demo", signal,
                         {order}, FALSE, NoId, "none")
    /\ suspended' = Tail(suspended)
    /\ UNCHANGED <<credentials, isEnabled, now, lastToggle>>

\* executeDemoTrade after its await: the timer of the oldest suspended call
\* fires (timers of equal delay fire in the order they were set)
executeDemoTradeResume(status, slip) ==
    /\ suspended # <<>>
    /\ LET signal == Head(suspended)
           order == demoOrder(signal, status, slip)
       IN  /\ orders' = Append(orders, order)
           /\ ret' = Ret("executeDemoTrade", "value", "demo", signal,
                         {order}, FALSE, NoId, "none")
    /\ suspended' = Tail(suspended)
    /\ UNCHANGED <<credentials, isEnabled, now, lastToggle>>

getOrders == orders

\* Array.prototype.findIndex: the first index whose orderId matches, 0 if none
findIndex(ords, orderId) ==
    IF \E i \in 1..Len(ords) : ords[i].orderId = orderId
      THEN CHOOSE i \in 1..Len(ords) :
              /\ ords[i].orderId = orderId
              /\ \A j \in 1..(i - 1) : ords[j].orderId # orderId
      ELSE 0

\* Array.prototype.find: {} stands for undefined
find(ords, orderId) ==
    IF findIndex(ords, orderId) > 0
      THEN {ords[findIndex(ords, orderId)]}
      ELSE {}

getOrderById(orderId) == find(orders, orderId)

\* mutant of cancelOrder: refuses an order that is not pending
cancelOrder_PendingOnly(orderId) ==
    /\ LET orderIndex == findIndex(orders, orderId)
       IN  IF orderIndex > 0 /\ orders[orderIndex].status = "pending"
             THEN /\ orders' = [orders EXCEPT ![orderIndex].status = "cancelled"]
                  /\ ret' = Ret("cancelOrder", "value", "none", NoSignal, {},
                                TRUE, orderId, orders[orderIndex].status)
             ELSE /\ orders' = orders
                  /\ ret' = Ret("cancelOrder", "value", "none", NoSignal, {},
                                FALSE, orderId, "none")
    /\ UNCHANGED <<credentials, isEnabled, suspended, now, lastToggle>>

\* mutant of cancelOrder: a missing id cancels the last entry
cancelOrder_LastWhenMissing(orderId) ==
    /\ LET orderIndex == findIndex(orders, orderId)
       IN  IF orderIndex > 0
             THEN /\ orders' = [orders EXCEPT ![orderIndex].status = "cancelled"]
                  /\ ret' = Ret("cancelOrder", "value", "none", NoSignal, {},
                                TRUE, orderId, orders[orderIndex].status)
             ELSE /\ orders' = IF orders = <<>> THEN orders
                               ELSE [orders EXCEPT ![Len(orders)].status = "cancelled"]
                  /\ ret' = Ret("cancelOrder", "value", "none", NoSignal, {},
                                FALSE, orderId, "none")
    /\ UNCHANGED <<credentials, isEnabled, suspended, now, lastToggle>>

\* mutant of cancelOrder: every entry with the id is cancelled
cancelOrder_AllMatching(orderId) ==
    /\ LET orderIndex == findIndex(orders, orderId)
       IN  IF orderIndex > 0
             THEN /\ orders' = [i \in 1..Len(orders) |->
                                   IF orders[i].orderId = orderId
                                     THEN [orders[i] EXCEPT !.status = "cancelled"]
                                     ELSE orders[i]]
                  /\ ret' = Ret("cancelOrder", "value", "none", NoSignal, {},
                                TRUE, orderId, orders[orderIndex].status)
             ELSE /\ orders' = orders
                  /\ ret' = Ret("cancelOrder", "value", "none", NoSignal, {},
                                FALSE, orderId, "none")
    /\ UNCHANGED <<credentials, isEnabled, suspended, now, lastToggle>>

cancelOrder(orderId) ==
    /\ LET orderIndex == findIndex(orders, orderId)
       IN  IF orderIndex > 0
             THEN /\ orders' = [orders EXCEPT ![orderIndex].status = "cancelled"]
                  /\ ret' = Ret("cancelOrder", "value", "none", NoSignal, {},
                                TRUE, orderId, orders[orderIndex].status)
             ELSE /\ orders' = orders
                  /\ ret' = Ret("cancelOrder", "value", "none", NoSignal, {},
                                FALSE, orderId, "none")
    /\ UNCHANGED <<credentials, isEnabled, suspended, now, lastToggle>>

getOrdersCall ==
    /\ ret' = PlainRet("getOrders")
    /\ UNCHANGED <<credentials, isEnabled, orders, suspended, now, lastToggle>>

getOrderByIdCall(orderId) ==
    /\ ret' = Ret("getOrderById", "value", "none", NoSignal,
                  getOrderById(orderId), FALSE, orderId, "none")
    /\ UNCHANGED <<credentials, isEnabled, orders, suspended, now, lastToggle>>

getAccountBalance ==
    /\ ret' = PlainRet("getAccountBalance")
    /\ UNCHANGED <<credentials, isEnabled, orders, suspended, now, lastToggle>>

\* the clock advances
Tick ==
    /\ now < MaxClock
    /\ now' = now + 1
    /\ UNCHANGED atsVars

\* the ids a caller can hold: those of the ledger, the one last returned, and
\* one that was never issued
KnownIds ==
    {o.orderId : o \in Range(orders)} \cup {o.orderId : o \in ret.order}
        \cup {UnknownId}

Next ==
    \/ enable /\ UNCHANGED nonAtsVars
    \/ disable /\ UNCHANGED nonAtsVars
    \/ (\E signal \in TradingSignal : executeSignal(signal)) /\ UNCHANGED nonAtsVars
    \/ (\E status \in {"filled", "failed"}, slip \in Slips :
          executeDemoTradeResume(status, slip)) /\ UNCHANGED nonAtsVars
    \/ (\E orderId \in KnownIds : cancelOrder(orderId)) /\ UNCHANGED nonAtsVars
    \/ getOrdersCall /\ UNCHANGED nonAtsVars
    \/ (\E orderId \in KnownIds : getOrderByIdCall(orderId)) /\ UNCHANGED nonAtsVars
    \/ getAccountBalance /\ UNCHANGED nonAtsVars
    \/ Tick /\ UNCHANGED nonAtsVars

Spec == Init /\ [][Next]_vars

---------------------------------------------------------------------------
(* MarketDataProvider *)

\* a Set in insertion order: Set.prototype.add and Set.prototype.delete
SetAdd(seq, x) == IF x \in Range(seq) THEN seq ELSE Append(seq, x)

SetDelete(seq, x) == SelectSeq(seq, LAMBDA y : y # x)

\* the Set of callbacks of a symbol, <<>> when the map has no entry for it
SubsOf(symbol) ==
    IF subscribers[symbol] = {} THEN <<>>
    ELSE CHOOSE seq \in subscribers[symbol] : TRUE

\* the id setInterval returns: positive, and that of no active timer
FreshTimerId ==
    CHOOSE id \in 1..(Cardinality(timers) + 1) :
        \A t \in timers : t.id # id

\* startAutoRefresh: the timers and the intervals map after it
startAutoRefresh(symbol) ==
    <<timers \cup {[id |-> FreshTimerId, symbol |-> symbol]},
      [intervals EXCEPT ![symbol] = {FreshTimerId}]>>

\* stopAutoRefresh without its clearInterval
stopAutoRefresh_KeepTimer(symbol) ==
    <<timers, [intervals EXCEPT ![symbol] = {}]>>

\* stopAutoRefresh
stopAutoRefresh(symbol) ==
    IF intervals[symbol] # {}
      THEN <<{t \in timers : t.id \notin intervals[symbol]},
             [intervals EXCEPT ![symbol] = {}]>>
      ELSE <<timers, intervals>>

subscribe(symbol, callback) ==
    /\ BagCardinality(handles) < MaxSubscribes
    /\ subscribers' = [subscribers EXCEPT ![symbol] = {SetAdd(SubsOf(symbol), callback)}]
    /\ LET after == IF intervals[symbol] = {} THEN startAutoRefresh(symbol)
                    ELSE <<timers, intervals>>
       IN  /\ timers' = after[1]
           /\ intervals' = after[2]
    /\ handles' = handles (+) SetToBag({[symbol |-> symbol, callback |-> callback,
                                          invoked |-> FALSE]})
    /\ mdRet' = MdRet("subscribe", "none", {}, <<>>)
    /\ UNCHANGED <<cache, inflight>>

\* an unsubscribe closure that also drops the outstanding requests of its symbol
unsubscribe_CancelsInflight(symbol, callback, invoked) ==
    LET h == [symbol |-> symbol, callback |-> callback, invoked |-> invoked]
    IN  /\ BagIn(h, handles)
        /\ IF subscribers[symbol] # {}
             THEN LET subs == SetDelete(SubsOf(symbol), callback)
                      after == IF Len(subs) = 0 THEN stopAutoRefresh(symbol)
                               ELSE <<timers, intervals>>
                  IN  /\ subscribers' = [subscribers EXCEPT ![symbol] = {subs}]
                      /\ timers' = after[1]
                      /\ intervals' = after[2]
             ELSE UNCHANGED <<subscribers, timers, intervals>>
        /\ handles' = (handles (-) SetToBag({h}))
                          (+) SetToBag({[h EXCEPT !.invoked = TRUE]})
        /\ mdRet' = MdRet("unsubscribe", "none", {}, <<>>)
        /\ inflight' = [r \in {x \in DOMAIN inflight : x.symbol # symbol}
                            |-> inflight[r]]
        /\ UNCHANGED cache

\* the closure subscribe(symbol, callback) returned is called; invoked tells
\* whether this closure was called before
unsubscribe(symbol, callback, invoked) ==
    LET h == [symbol |-> symbol, callback |-> callback, invoked |-> invoked]
    IN  /\ BagIn(h, handles)
        /\ IF subscribers[symbol] # {}
             THEN LET subs == SetDelete(SubsOf(symbol), callback)
                      after == IF Len(subs) = 0 THEN stopAutoRefresh(symbol)
                               ELSE <<timers, intervals>>
                  IN  /\ subscribers' = [subscribers EXCEPT ![symbol] = {subs}]
                      /\ timers' = after[1]
                      /\ intervals' = after[2]
             ELSE UNCHANGED <<subscribers, timers, intervals>>
        /\ handles' = (handles (-) SetToBag({h}))
                          (+) SetToBag({[h EXCEPT !.invoked = TRUE]})
        /\ mdRet' = MdRet("unsubscribe", "none", {}, <<>>)
        /\ UNCHANGED <<cache, inflight>>

\* fetchMarketData up to its first await: the request is sent
fetchMarketData(symbol, origin) ==
    /\ BagCardinality(inflight) < MaxInflight
    /\ inflight' = inflight (+) SetToBag({[symbol |-> symbol, origin |-> origin]})
    /\ mdRet' = MdRet("fetchMarketData", "pending", {}, <<>>)
    /\ UNCHANGED <<cache, subscribers, intervals, timers, handles>>

\* the setInterval callback of startAutoRefresh runs
refreshTick(symbol) ==
    /\ \E t \in timers : t.symbol = symbol
    /\ fetchMarketData(symbol, "tick")

\* the MarketData fetchMarketData builds from the payload
marketData(symbol, response) ==
    [symbol |-> symbol, price |-> parseFloat(response.lastPrice), timestamp |-> now]

\* notifySubscribers: forEach calls the callbacks in insertion order and
\* stops at the first one that throws; the callbacks it has invoked
notifySubscribers(symbol, throwers) ==
    LET subs == SubsOf(symbol)
        bad == {i \in 1..Len(subs) : subs[i] \in throwers}
    IN  IF bad = {} THEN subs
        ELSE SubSeq(subs, 1, CHOOSE i \in bad : \A j \in bad : i <= j)

\* a cache that drops the snapshot of a symbol whose request failed
cacheAfter_DropOnFailure(symbol, response) ==
    IF response.kind = "ok"
      THEN [cache EXCEPT ![symbol] = {marketData(symbol, response)}]
      ELSE [cache EXCEPT ![symbol] = {}]

\* this.cache after the request for symbol ended with response
cacheAfter(symbol, response) ==
    IF response.kind = "ok"
      THEN [cache EXCEPT ![symbol] = {marketData(symbol, response)}]
      ELSE cache

\* the callbacks invoked when the request for symbol ended with response
invokedAfter(symbol, response, throwers) ==
    IF response.kind = "ok" THEN notifySubscribers(symbol, throwers) ELSE <<>>

\* a refresh timer without its .catch: the error leaves the timer callback
outcomeAfter_Propagates(symbol, origin, response, throwers) ==
    IF response.kind = "ok" /\ Range(SubsOf(symbol)) \cap throwers = {}
      THEN "resolved"
      ELSE "rejected"

\* how the promise of fetchMarketData settles: an error (of the request or
\* of a callback) is rethrown by the catch block; the refresh timer absorbs
\* it with .catch(console.error)
outcomeAfter(symbol, origin, response, throwers) ==
    IF response.kind = "ok" /\ Range(SubsOf(symbol)) \cap throwers = {}
      THEN "resolved"
      ELSE IF origin = "tick" THEN "absorbed" ELSE "rejected"

\* fetchMarketData after its awaits: an outstanding request for symbol ends
\* with response; throwers are the callbacks that throw if invoked now
fetchSettle(symbol, origin, response, throwers) ==
    /\ BagIn([symbol |-> symbol, origin |-> origin], inflight)
    /\ cache' = cacheAfter(symbol, response)
    /\ LET outcome == outcomeAfter(symbol, origin, response, throwers)
       IN  mdRet' = MdRet("fetchSettle", outcome,
                          IF outcome = "resolved"
                            THEN {marketData(symbol, response)} ELSE {},
                          invokedAfter(symbol, response, throwers))
    /\ inflight' = inflight (-) SetToBag({[symbol |-> symbol, origin |-> origin]})
    /\ UNCHANGED <<subscribers, intervals, timers, handles>>

getCachedData(symbol) == cache[symbol]

getCachedDataCall(symbol) ==
    /\ mdRet' = MdRet("getCachedData", "resolved",
                      getCachedData(symbol), <<>>)
    /\ UNCHANGED <<cache, subscribers, intervals, timers, inflight, handles>>

\* The provider alone, on a service that is left untouched. The clock stands
\* still in these behaviours: every snapshot is taken within one millisecond.
MDInit ==
    /\ Init
    /\ credentials.exchange = "demo"

MDNext ==
    \/ (\E symbol \in MDSymbols, callback \in Callbacks :
          subscribe(symbol, callback)) /\ UNCHANGED nonMdVars
    \/ (\E symbol \in MDSymbols, callback \in Callbacks, invoked \in BOOLEAN :
          unsubscribe(symbol, callback, invoked)) /\ UNCHANGED nonMdVars
    \/ (\E symbol \in MDSymbols : fetchMarketData(symbol, "call"))
          /\ UNCHANGED nonMdVars
    \/ (\E symbol \in MDSymbols : refreshTick(symbol)) /\ UNCHANGED nonMdVars
    \/ (\E symbol \in MDSymbols, origin \in Origins, response \in Responses :
          \E throwers \in SUBSET Range(invokedAfter(symbol, response, {})) :
              fetchSettle(symbol, origin, response, throwers))
          /\ UNCHANGED nonMdVars
    \/ (\E symbol \in MDSymbols : getCachedDataCall(symbol))
          /\ UNCHANGED nonMdVars

SpecMD == MDInit /\ [][MDNext]_vars

---------------------------------------------------------------------------
(* MarketDataProvider with the order in which its requests were issued *)

\* what the provider and the record of its requests leave alone
nonIssueVars == <<credentials, isEnabled, orders, suspended, ret, lastToggle, now,
                  wsConnections, sockets, wsRet, args, out>>

\* the sequence without its i-th element
RemoveAt(seq, i) == SubSeq(seq, 1, i - 1) \o SubSeq(seq, i + 1, Len(seq))

\* a request is sent: it is the youngest outstanding one of its symbol
fetchIssued(symbol, origin) ==
    /\ IF origin = "tick" THEN refreshTick(symbol) ELSE fetchMarketData(symbol, origin)
    /\ issued' = [issued EXCEPT
                     ![symbol] = Append(@, [origin |-> origin, overtaken |-> FALSE])]

\* the i-th outstanding request of symbol ends with response; if it stored a
\* snapshot, the requests issued before it are overtaken from now on
settleIssued(symbol, i, response, throwers) ==
    /\ i \in 1..Len(issued[symbol])
    /\ fetchSettle(symbol, issued[symbol][i].origin, response, throwers)
    /\ issued' = [issued EXCEPT
                     ![symbol] =
                        RemoveAt([j \in 1..Len(@) |->
                                     IF j < i /\ response.kind = "ok"
                                       THEN [@[j] EXCEPT !.overtaken = TRUE]
                                       ELSE @[j]], i)]

MDOrderNext ==
    \/ (\E symbol \in MDSymbols, callback \in Callbacks :
          subscribe(symbol, callback)) /\ UNCHANGED <<nonIssueVars, issued>>
    \/ (\E symbol \in MDSymbols, callback \in Callbacks, invoked \in BOOLEAN :
          unsubscribe(symbol, callback, invoked)) /\ UNCHANGED <<nonIssueVars, issued>>
    \/ (\E symbol \in MDSymbols, origin \in Origins : fetchIssued(symbol, origin))
          /\ UNCHANGED nonIssueVars
    \/ (\E symbol \in MDSymbols, i \in 1..MaxInflight, response \in Responses :
          \E throwers \in SUBSET Range(invokedAfter(symbol, response, {})) :
              settleIssued(symbol, i, response, throwers))
          /\ UNCHANGED nonIssueVars
    \/ (\E symbol \in MDSymbols : getCachedDataCall(symbol))
          /\ UNCHANGED <<nonIssueVars, issued>>

SpecMDOrder == MDInit /\ [][MDOrderNext]_vars

---------------------------------------------------------------------------
(* MarketDataService: subscribeToPrice *)

\* most WebSockets created in a behaviour
MaxSockets == 2

\* subscribeToPrice: a WebSocket is created and registered under the symbol
subscribeToPrice(symbol, callback) ==
    /\ Len(sockets) < MaxSockets
    /\ sockets' = Append(sockets, [symbol |-> symbol, callback |-> callback,
                                   open |-> TRUE])
    /\ wsConnections' = [wsConnections EXCEPT ![symbol] = {Len(sockets) + 1}]
    /\ wsRet' = WsRet("subscribeToPrice", Len(sockets) + 1, {})

\* the closure the ws-th subscribeToPrice returned is called: ws.close(), then
\* wsConnections.delete(symbol)
priceUnsubscribe(ws) ==
    /\ ws \in 1..Len(sockets)
    /\ sockets' = [sockets EXCEPT ![ws].open = FALSE]
    /\ wsConnections' = [wsConnections EXCEPT ![sockets[ws].symbol] = {}]
    /\ wsRet' = WsRet("unsubscribe", ws, {})

\* ws.onmessage: a ticker message arrives on an open WebSocket
onmessage(ws, c) ==
    /\ ws \in 1..Len(sockets)
    /\ sockets[ws].open
    /\ wsRet' = WsRet("onmessage", ws, {parseFloat(c)})
    /\ UNCHANGED <<wsConnections, sockets>>

\* what the operations of MarketDataService leave alone
nonWsVars == <<credentials, isEnabled, orders, suspended, ret, lastToggle, now,
               cache, subscribers, intervals, timers, inflight, handles, mdRet,
               issued, args, out>>

WSNext ==
    \/ (\E symbol \in MDSymbols, callback \in Callbacks :
          subscribeToPrice(symbol, callback)) /\ UNCHANGED nonWsVars
    \/ (\E ws \in 1..MaxSockets : priceUnsubscribe(ws)) /\ UNCHANGED nonWsVars
    \/ (\E ws \in 1..MaxSockets, c \in LastPrices : onmessage(ws, c))
          /\ UNCHANGED nonWsVars

SpecWS == MDInit /\ [][WSNext]_vars

---------------------------------------------------------------------------
(* TechnicalAnalysisService and TechnicalIndicators: calculateRSI, calculateSMA *)

\* longest price array of a call
MaxTALen == 4
\* largest price of a call
MaxTAPrice == 4
\* largest period of a call
MaxPeriod == 3

\* an integer as a number
FracOf(n) == Quotient(n, 1)

\* x / y, x + y and x - y of numbers x and y >= 0. Infinity is carried as
\* 1/0 and NaN as 0/0, which gives x / Infinity = 0, 1 + Infinity = Infinity
\* and NaN for every operation on NaN; no sum or difference below has two
\* infinite operands.
FracDiv(x, y) == Quotient(x.num * y.den, x.den * y.num)
FracAdd(x, y) == Quotient(x.num * y.den + y.num * x.den, x.den * y.den)
FracSub(x, y) == Quotient(x.num * y.den - y.num * x.den, x.den * y.den)

\* prices[i] - prices[i - 1] for i = 1 .. length - 1 (here indexed from 1)
changesOf(prices) == [i \in 1..(Len(prices) - 1) |-> prices[i + 1] - prices[i]]

\* gains.push(change > 0 ? change : 0)
gainsOf(prices) ==
    [i \in 1..(Len(prices) - 1) |->
        IF changesOf(prices)[i] > 0 THEN changesOf(prices)[i] ELSE 0]

\* losses.push(change < 0 ? Math.abs(change) : 0)
lossesOf(prices) ==
    [i \in 1..(Len(prices) - 1) |->
        IF changesOf(prices)[i] < 0 THEN Abs(changesOf(prices)[i]) ELSE 0]

\* array.slice(-n) for n >= 1: the last n elements, all of them if there are fewer
sliceLast(array, n) ==
    IF n >= Len(array) THEN array ELSE SubSeq(array, Len(array) - n + 1, Len(array))

\* array.reduce((a, b) => a + b, 0)
RECURSIVE sumOf(_)
sumOf(array) == IF array = <<>> THEN 0 ELSE array[1] + sumOf(Tail(array))

\* calculateRSI with gains and losses exchanged
calculateRSI_Swapped(prices, period) ==
    IF Len(prices) < period + 1
      THEN FracOf(50)
      ELSE LET avgGain == Quotient(sumOf(sliceLast(lossesOf(prices), period)), period)
               avgLoss == Quotient(sumOf(sliceLast(gainsOf(prices), period)), period)
           IN  IF avgLoss = FracOf(0)
                 THEN FracOf(100)
                 ELSE FracSub(FracOf(100),
                              FracDiv(FracOf(100), FracAdd(FracOf(1), FracDiv(avgGain, avgLoss))))

\* calculateRSI that calls a flat series neutral
calculateRSI_FlatNeutral(prices, period) ==
    IF Len(prices) < period + 1
      THEN FracOf(50)
      ELSE LET avgGain == Quotient(sumOf(sliceLast(gainsOf(prices), period)), period)
               avgLoss == Quotient(sumOf(sliceLast(lossesOf(prices), period)), period)
           IN  IF avgLoss = FracOf(0)
                 THEN IF avgGain = FracOf(0) THEN FracOf(50) ELSE FracOf(100)
                 ELSE FracSub(FracOf(100),
                              FracDiv(FracOf(100), FracAdd(FracOf(1), FracDiv(avgGain, avgLoss))))

\* TechnicalAnalysisService.calculateRSI
calculateRSI(prices, period) ==
    IF Len(prices) < period + 1
      THEN FracOf(50)
      ELSE LET avgGain == Quotient(sumOf(sliceLast(gainsOf(prices), period)), period)
               avgLoss == Quotient(sumOf(sliceLast(lossesOf(prices), period)), period)
           IN  IF avgLoss = FracOf(0)
                 THEN FracOf(100)
                 ELSE FracSub(FracOf(100),
                              FracDiv(FracOf(100), FracAdd(FracOf(1), FracDiv(avgGain, avgLoss))))

\* calculateSMA averaging the whole array
calculateSMA_WholeArray(prices, period) ==
    IF Len(prices) < period
      THEN IF Len(prices) = 0
             THEN [kind |-> "undefined", num |-> 0, den |-> 0]
             ELSE FracOf(prices[Len(prices)])
      ELSE Quotient(sumOf(prices), Len(prices))

\* TechnicalAnalysisService.calculateSMA; prices[-1] of an empty array is undefined
calculateSMA(prices, period) ==
    IF Len(prices) < period
      THEN IF Len(prices) = 0
             THEN [kind |-> "undefined", num |-> 0, den |-> 0]
             ELSE FracOf(prices[Len(prices)])
      ELSE Quotient(sumOf(sliceLast(prices, period)), period)

\* TechnicalIndicators repeats the two functions word for word
TechnicalIndicators_calculateRSI(prices, period) == calculateRSI(prices, period)
TechnicalIndicators_calculateSMA(prices, period) == calculateSMA(prices, period)

\* the calculateRSI helper of the useMarketData module: the text of
\* TechnicalAnalysisService.calculateRSI again
useMarketData_calculateRSI(prices, period) == calculateRSI(prices, period)

\* the local calculateRSI of the DeepAnalysis page: no test of the length and
\* none of avgLoss
DeepAnalysis_calculateRSI(prices, period) ==
    LET avgGain == Quotient(sumOf(sliceLast(gainsOf(prices), period)), period)
        avgLoss == Quotient(sumOf(sliceLast(lossesOf(prices), period)), period)
        rs == FracDiv(avgGain, avgLoss)
    IN  FracSub(FracOf(100), FracDiv(FracOf(100), FracAdd(FracOf(1), rs)))

\* the two classes offering the indicators
IndicatorClasses == {"TechnicalAnalysisService", "TechnicalIndicators"}

\* price arrays of positive integer prices
RECURSIVE SeqsUpTo(_, _)
SeqsUpTo(S, n) ==
    IF n = 0 THEN {<<>>}
    ELSE SeqsUpTo(S, n - 1) \cup
         {Append(q, x) : q \in {r \in SeqsUpTo(S, n - 1) : Len(r) = n - 1}, x \in S}

PriceArrays == SeqsUpTo(1..MaxTAPrice, MaxTALen)

\* a period is a positive number of bars
Periods == 1..MaxPeriod

IndicatorArgs ==
    [fn : {"calculateRSI", "calculateSMA"}, class : IndicatorClasses,
     prices : PriceArrays, period : Periods]
    \cup [fn : {"localCalculateRSI"}, class : {"useMarketData", "DeepAnalysis"},
           prices : PriceArrays, period : Periods]

calculateRSICall ==
    /\ args.fn = "calculateRSI"
    /\ out = {}
    /\ out' = {IF args.class = "TechnicalAnalysisService"
                 THEN calculateRSI(args.prices, args.period)
                 ELSE TechnicalIndicators_calculateRSI(args.prices, args.period)}
    /\ UNCHANGED <<atsVars, now, mdVars, issued, wsVars, args>>

calculateSMACall ==
    /\ args.fn = "calculateSMA"
    /\ out = {}
    /\ out' = {IF args.class = "TechnicalAnalysisService"
                 THEN calculateSMA(args.prices, args.period)
                 ELSE TechnicalIndicators_calculateSMA(args.prices, args.period)}
    /\ UNCHANGED <<atsVars, now, mdVars, issued, wsVars, args>>

\* the calculateRSI that is local to a module or a page
localCalculateRSICall ==
    /\ args.fn = "localCalculateRSI"
    /\ out = {}
    /\ out' = {IF args.class = "useMarketData"
                 THEN useMarketData_calculateRSI(args.prices, args.period)
                 ELSE DeepAnalysis_calculateRSI(args.prices, args.period)}
    /\ UNCHANGED <<atsVars, now, mdVars, issued, wsVars, args>>

TAInit ==
    /\ credentials = [exchange |-> "demo"]
    /\ isEnabled = FALSE
    /\ orders = <<>>
    /\ suspended = <<>>
    /\ now = 0
    /\ ret = PlainRet("new")
    /\ lastToggle = "none"
    /\ cache = [s \in MDSymbols |-> {}]
    /\ subscribers = [s \in MDSymbols |-> {}]
    /\ intervals = [s \in MDSymbols |-> {}]
    /\ timers = {}
    /\ inflight = EmptyBag
    /\ handles = EmptyBag
    /\ mdRet = MdRet("new", "none", {}, <<>>)
    /\ issued = [s \in MDSymbols |-> <<>>]
    /\ wsConnections = [s \in MDSymbols |-> {}]
    /\ sockets = <<>>
    /\ wsRet = WsRet("new", 0, {})
    /\ args \in IndicatorArgs
    /\ out = {}

TANext ==
    \/ calculateRSICall
    \/ calculateSMACall
    \/ localCalculateRSICall

SpecTA == TAInit /\ [][TANext]_vars

---------------------------------------------------------------------------
(* RiskManagementService as a specification: a call with arguments of the
   sets above, on services that are left untouched *)

RiskArgs == IsValidTradeArgs \cup PositionSizeArgs \cup RiskRewardArgs

RiskInit ==
    /\ credentials = [exchange |-> "demo"]
    /\ isEnabled = FALSE
    /\ orders = <<>>
    /\ suspended = <<>>
    /\ now = 0
    /\ ret = PlainRet("new")
    /\ lastToggle = "none"
    /\ cache = [s \in MDSymbols |-> {}]
    /\ subscribers = [s \in MDSymbols |-> {}]
    /\ intervals = [s \in MDSymbols |-> {}]
    /\ timers = {}
    /\ inflight = EmptyBag
    /\ handles = EmptyBag
    /\ mdRet = MdRet("new", "none", {}, <<>>)
    /\ issued = [s \in MDSymbols |-> <<>>]
    /\ wsConnections = [s \in MDSymbols |-> {}]
    /\ sockets = <<>>
    /\ wsRet = WsRet("new", 0, {})
    /\ args \in RiskArgs
    /\ out = {}

RiskNext ==
    \/ isValidTradeCall
    \/ calculatePositionSizeCall
    \/ calculateRiskRewardCall

SpecRisk == RiskInit /\ [][RiskNext]_vars

---------------------------------------------------------------------------
(* Properties of AutoTradingService *)

OrderIdsOf(ords) == {ords[i].orderId : i \in 1..Len(ords)}

\* C1: executeSignal on a Disabled controller raises the not-enabled error
\* for every signal and every exchange tag, enters no gateway branch,
\* suspends no execution and leaves the ledger and the enabled flag as they
\* were.
C1_DisabledRejects ==
    [][\A signal \in TradingSignal :
          (~isEnabled /\ executeSignal(signal)) =>
              /\ ret'.outcome = "NotEnabled"
              /\ ret'.path = "rejected"
              /\ ret'.order = {}
              /\ suspended' = suspended
              /\ orders' = orders
              /\ isEnabled' = isEnabled]_vars

\* a sell was rejected on a Disabled controller whose ledger is not empty
C1_Witness ==
    /\ ret.op = "executeSignal"
    /\ ret.outcome = "NotEnabled"
    /\ ret.signal.action = "sell"
    /\ ~isEnabled
    /\ orders # <<>>

\* C2: the controller starts Disabled, the flag is Enabled exactly when the
\* most recent of the enable()/disable() calls was enable() (so both are
\* idempotent), and an executeSignal call is rejected with the not-enabled
\* error exactly when the flag is not Enabled.
C2_EnabledIffLastToggleEnable ==
    /\ isEnabled <=> (lastToggle = "enable")
    /\ ret.op = "executeSignal" =>
          ((ret.outcome = "NotEnabled") <=> (lastToggle # "enable"))

\* executeSignal was rejected after enable() and then disable(): the ledger
\* entry shows an earlier accepted call
C2_Witness ==
    /\ ret.op = "executeSignal"
    /\ ret.outcome = "NotEnabled"
    /\ lastToggle = "disable"
    /\ orders # <<>>

\* C3: for every exchange variant, the order returned for a buy or sell
\* signal is in the ledger: getOrders() contains it and getOrderById finds it.
C3_ReturnedOrderRecorded ==
    (/\ ret.op \in {"executeSignal", "executeDemoTrade"}
     /\ ret.outcome = "value"
     /\ ret.signal.action \in {"buy", "sell"}) =>
        \A o \in ret.order :
            /\ o \in Range(getOrders)
            /\ getOrderById(o.orderId) = {o}

\* C4: the order returned for a hold signal is in the ledger.
C4_HoldOrderRecorded ==
    (/\ ret.op = "executeSignal"
     /\ ret.outcome = "value"
     /\ ret.signal.action = "hold") =>
        \A o \in ret.order :
            /\ o \in Range(getOrders)
            /\ getOrderById(o.orderId) = {o}

\* C5: on an Enabled controller a hold signal returns an order with status
\* cancelled, quantity 0 and side buy, whatever the signal's quantity and
\* the exchange tag, through the hold branch alone: no execution is
\* suspended or resumed.
C5_HoldYieldsCancelled ==
    [][\A signal \in TradingSignal :
          (isEnabled /\ signal.action = "hold" /\ executeSignal(signal)) =>
              /\ ret'.outcome = "value"
              /\ ret'.path = "hold"
              /\ Cardinality(ret'.order) = 1
              /\ \A o \in ret'.order :
                    /\ o.status = "cancelled"
                    /\ o.quantity = 0
                    /\ o.side = "buy"
              /\ suspended' = suspended]_vars

\* a hold signal of non-zero quantity was executed
C5_Witness ==
    /\ ret.op = "executeSignal"
    /\ ret.signal.action = "hold"
    /\ ret.signal.quantity > 0
    /\ ret.outcome = "value"
    /\ \E o \in ret.order : o.quantity = 0

\* C6: cancelOrder on an id of the ledger returns true and getOrderById then
\* shows status cancelled, whatever the status was before.
C6_CancelKnownId ==
    [][\A orderId \in KnownIds :
          (orderId \in OrderIdsOf(orders) /\ cancelOrder(orderId)) =>
              /\ ret'.flag = TRUE
              /\ find(orders', orderId) # {}
              /\ \A o \in find(orders', orderId) : o.status = "cancelled"]_vars

\* a filled order was cancelled
C6_Witness ==
    /\ ret.op = "cancelOrder"
    /\ ret.flag
    /\ ret.prev = "filled"
    /\ \E o \in getOrderById(ret.arg) : o.status = "cancelled"

\* C7: cancelOrder on an id that matches no ledger entry returns false and
\* changes neither the ledger nor the enabled flag.
C7_CancelUnknownId ==
    [][\A orderId \in KnownIds :
          (orderId \notin OrderIdsOf(orders) /\ cancelOrder(orderId)) =>
              /\ ret'.flag = FALSE
              /\ orders' = orders
              /\ isEnabled' = isEnabled]_vars

\* an unknown id was refused while the ledger holds a live order
C7_Witness ==
    /\ ret.op = "cancelOrder"
    /\ ~ret.flag
    /\ ret.arg \notin OrderIdsOf(orders)
    /\ \E i \in 1..Len(orders) : orders[i].status = "filled"

\* C8: an order's status changes only from pending to cancelled; a filled or
\* failed order keeps its status.
C8_TerminalStatusKept ==
    [][\A i \in 1..Len(orders) :
          /\ orders[i].status \in {"filled", "failed"} =>
                orders'[i].status = orders[i].status
          /\ orders'[i].status # orders[i].status =>
                (orders[i].status = "pending" /\ orders'[i].status = "cancelled")
      ]_vars

\* C9: no two ledger entries share an orderId.
C9_UniqueOrderIds ==
    \A i, j \in 1..Len(orders) :
        i # j => orders[i].orderId # orders[j].orderId

SameButStatus(a, b) == [a EXCEPT !.status = b.status] = b

\* C10: the ledger is append-only and insertion-ordered: in every step it
\* keeps its entries at their positions (only a status may change) and grows
\* by at most one entry, at the end.
C10_AppendOnly ==
    [][/\ Len(orders') \in {Len(orders), Len(orders) + 1}
       /\ \A i \in 1..Len(orders) : SameButStatus(orders[i], orders'[i])]_vars

\* a ledger of two different entries, the first of them cancelled after the
\* second was appended
C10_Witness ==
    /\ Len(orders) >= 2
    /\ ~SameButStatus(orders[1], orders[2])
    /\ ret.op = "cancelOrder"
    /\ ret.flag
    /\ ret.arg = orders[1].orderId

\* C11: against the Demo variant every accepted buy/sell call is one pending
\* execution and then one ledger entry: accepting a call suspends exactly one
\* execution, a resumption appends exactly one order (that of the oldest
\* suspended signal) and ends that execution, and no other step changes the
\* ledger length or the pending executions.  So the ledger length plus the
\* pending executions counts the accepted calls, and once none is pending the
\* ledger holds one entry per call.
C11_OneEntryPerCall ==
    [][credentials.exchange = "demo" =>
          IF \E signal \in TradingSignal :
                isEnabled /\ signal.action # "hold" /\ executeSignal(signal)
            THEN /\ Len(suspended') = Len(suspended) + 1
                 /\ orders' = orders
            ELSE IF \E status \in {"filled", "failed"}, slip \in Slips :
                       executeDemoTradeResume(status, slip)
            THEN /\ suspended' = Tail(suspended)
                 /\ Len(orders') = Len(orders) + 1
                 /\ LET o == orders'[Len(orders')]
                    IN  /\ o.side = Head(suspended).action
                        /\ o.quantity = Head(suspended).quantity
                        /\ o.symbol = Head(suspended).symbol
            ELSE /\ Len(orders') = Len(orders)
                 /\ suspended' = suspended]_vars

\* two Demo executions resumed in the same millisecond, one filled and one
\* failed, and none is pending
C11_Witness ==
    /\ credentials.exchange = "demo"
    /\ suspended = <<>>
    /\ Len(orders) = 2
    /\ orders[1].timestamp = orders[2].timestamp
    /\ orders[1].status = "failed"
    /\ orders[2].status = "filled"
    /\ ret.op = "executeDemoTrade"

\* C12: on an Enabled controller a buy/sell signal raises only for an
\* exchange tag outside demo, binance, bybit, okx, and then the ledger is
\* unchanged; for the four variants the call is accepted and every order it
\* returns, at once or on resumption, has status filled or failed.
C12_OnlyUnsupportedRaises ==
    [][/\ \A signal \in TradingSignal :
             (isEnabled /\ signal.action # "hold" /\ executeSignal(signal)) =>
                 IF credentials.exchange \in SupportedExchanges
                   THEN /\ ret'.outcome \in {"value", "suspended"}
                        /\ \A o \in ret'.order : o.status \in {"filled", "failed"}
                   ELSE /\ ret'.outcome = "UnsupportedExchange"
                        /\ ret'.order = {}
                        /\ orders' = orders
                        /\ suspended' = suspended
       /\ \A status \in {"filled", "failed"}, slip \in Slips :
             executeDemoTradeResume(status, slip) =>
                 /\ ret'.outcome = "value"
                 /\ Cardinality(ret'.order) = 1
                 /\ \A o \in ret'.order : o.status \in {"filled", "failed"}]_vars

\* an okx execution came back failed, as a value
C12_Witness ==
    /\ credentials.exchange = "okx"
    /\ ret.op = "executeDemoTrade"
    /\ ret.outcome = "value"
    /\ \E o \in ret.order : o.status = "failed"

\* C13: for Binance, Bybit and OKX a failed order carries no fees, no
\* executedQty and no executedPrice.
C13_FailedCarriesNoFill ==
    credentials.exchange \in {"binance", "bybit", "okx"} =>
        \A o \in ret.order \cup Range(orders) :
            o.status = "failed" =>
                /\ o.fees = Absent
                /\ o.executedQty = Absent
                /\ o.executedPrice = Absent

\* C14: the order a Demo execution returns has status filled or failed, and a
\* filled one has fees = price * quantity * 0.001 (here in 1/1000) and
\* executedQty = quantity, those of the signal.
C14_DemoFill ==
    (credentials.exchange = "demo" /\ ret.op = "executeDemoTrade") =>
        /\ Cardinality(ret.order) = 1
        /\ \A o \in ret.order :
              /\ o.status \in {"filled", "failed"}
              /\ o.status = "filled" =>
                    /\ o.fees = {ret.signal.price * ret.signal.quantity}
                    /\ o.executedQty = {ret.signal.quantity}

\* both outcomes: a Demo ledger with a failed order and a buy just filled
C14_Witness ==
    /\ credentials.exchange = "demo"
    /\ ret.op = "executeDemoTrade"
    /\ ret.signal.action = "buy"
    /\ \E o \in ret.order : o.status = "filled" /\ o.fees = {200}
    /\ \E i \in 1..Len(orders) : orders[i].status = "failed"


\* the outstanding requests for a symbol
InflightFor(symbol) ==
    CopiesIn([symbol |-> symbol, origin |-> "tick"], inflight)
        + CopiesIn([symbol |-> symbol, origin |-> "call"], inflight)

\* the refresh timers of a symbol
TimersOf(symbol) == {t \in timers : t.symbol = symbol}

\* a step in which an outstanding request of origin for symbol completes
Settles(symbol, origin) ==
    /\ mdRet'.op = "fetchSettle"
    /\ BagIn([symbol |-> symbol, origin |-> origin], inflight)
    /\ inflight' = inflight (-) SetToBag({[symbol |-> symbol, origin |-> origin]})

\* such a step in which the request ends with response
SettlesWith(symbol, origin, response) ==
    \E throwers \in SUBSET Callbacks :
        fetchSettle(symbol, origin, response, throwers)

\* C15: when the request of a fetch for a symbol succeeds, the snapshot built
\* from it is stored under that symbol and the callbacks invoked are exactly
\* the subscribers of that symbol, each once, and no others.
C15_OkFetchNotifiesAll ==
    [][\A symbol \in MDSymbols, origin \in Origins, response \in Responses,
          throwers \in SUBSET Callbacks :
          (response.kind = "ok" /\ fetchSettle(symbol, origin, response, throwers))
              => /\ cache'[symbol] = {marketData(symbol, response)}
                 /\ mdRet'.invoked = SubsOf(symbol)]_vars

\* C16: the cached snapshot of a symbol is the one of the latest request for it
\* that succeeded: it is replaced by every such request and changed by nothing
\* else, a failed request leaves the whole cache as it was, no snapshot is ever
\* removed, and getCachedData returns the cached snapshot and sends no request.
C16_CacheIsLastGoodSnapshot ==
    [][/\ \A symbol \in MDSymbols, origin \in Origins :
             Settles(symbol, origin)
                 => \A response \in Responses :
                       \/ IF response.kind = "ok"
                            THEN cache' = [cache EXCEPT
                                     ![symbol] = {marketData(symbol, response)}]
                            ELSE cache' = cache
                       \/ ~SettlesWith(symbol, origin, response)
       /\ mdRet'.op # "fetchSettle" => cache' = cache
       /\ \A symbol \in MDSymbols : cache[symbol] # {} => cache'[symbol] # {}
       /\ mdRet'.op = "getCachedData"
             => \A symbol \in MDSymbols :
                   getCachedDataCall(symbol)
                       => mdRet'.data = cache[symbol] /\ inflight' = inflight]_vars

C16_Witness ==
    /\ mdRet.op = "getCachedData"
    /\ mdRet.data # {}
    /\ \E symbol \in MDSymbols : cache[symbol] = {}

\* C17: for every symbol a refresh timer is running iff the symbol has a
\* subscriber, there is at most one refresh timer per symbol, and the
\* intervals map names exactly the running timers.
C17_RefreshIffSubscribed ==
    \A symbol \in MDSymbols :
        /\ (TimersOf(symbol) # {}) <=> (Len(SubsOf(symbol)) > 0)
        /\ Cardinality(TimersOf(symbol)) <= 1
        /\ intervals[symbol] = {t.id : t \in TimersOf(symbol)}

\* a symbol whose only subscriber left, which stopped its timer, and came
\* back, which started one again
C17_Witness ==
    \E symbol \in MDSymbols, callback \in Callbacks :
        /\ BagIn([symbol |-> symbol, callback |-> callback, invoked |-> TRUE], handles)
        /\ BagIn([symbol |-> symbol, callback |-> callback, invoked |-> FALSE], handles)
        /\ SubsOf(symbol) = <<callback>>
        /\ Cardinality(TimersOf(symbol)) = 1

\* C18: at most one request per symbol is outstanding at any time.
C18_OneInflightPerSymbol ==
    \A symbol \in MDSymbols : InflightFor(symbol) <= 1

\* C19: the snapshots a subscribed callback receives are those of the requests
\* for its symbol that succeeded while it was subscribed, in completion order:
\* every such completion invokes each subscriber of the symbol exactly once,
\* and a request that failed invokes nobody.
C19_DeliveredInCompletionOrder ==
    [][\A symbol \in MDSymbols, origin \in Origins, response \in Responses,
          throwers \in SUBSET Callbacks :
          fetchSettle(symbol, origin, response, throwers)
              => \A callback \in Callbacks :
                    LET times == Cardinality({k \in 1..Len(mdRet'.invoked) :
                                                 mdRet'.invoked[k] = callback})
                    IN  IF response.kind = "ok" /\ callback \in Range(SubsOf(symbol))
                          THEN times = 1
                          ELSE times = 0]_vars

\* C20: a request sent by the refresh timer that fails is absorbed: the error
\* reaches nobody, no callback is invoked, and the subscribers, the cache, the
\* timers and the intervals map are as before, so the timer fires again.
C20_FailedTickAbsorbed ==
    [][\A symbol \in MDSymbols :
          Settles(symbol, "tick")
              => \A response \in Responses, throwers \in SUBSET Callbacks :
                    (response.kind # "ok"
                        /\ fetchSettle(symbol, "tick", response, throwers))
                        => /\ mdRet'.outcome = "absorbed"
                           /\ mdRet'.invoked = <<>>
                           /\ mdRet'.data = {}
                           /\ UNCHANGED <<cache, subscribers, timers, intervals,
                                          handles>>]_vars

\* a failed refresh was absorbed while the symbol has a subscriber, a cached
\* snapshot and a running timer
C20_Witness ==
    /\ mdRet.op = "fetchSettle"
    /\ mdRet.outcome = "absorbed"
    /\ mdRet.invoked = <<>>
    /\ \E symbol \in MDSymbols :
          /\ Len(SubsOf(symbol)) > 0
          /\ cache[symbol] # {}
          /\ TimersOf(symbol) # {}

\* C21: an unsubscribe leaves the outstanding requests as they are; a refresh
\* tick fires only for a symbol that has a subscriber; and a request that
\* completes stores its snapshot whoever is subscribed by then and invokes
\* only callbacks that are subscribed at that moment, so not a removed one.
C21_UnsubscribeKeepsInflight ==
    [][/\ mdRet'.op = "unsubscribe" => inflight' = inflight
       /\ \A symbol \in MDSymbols :
             refreshTick(symbol) => Len(SubsOf(symbol)) > 0
       /\ \A symbol \in MDSymbols, origin \in Origins :
             Settles(symbol, origin)
                 => /\ Range(mdRet'.invoked) \subseteq Range(SubsOf(symbol))
                    /\ \A response \in Responses :
                          \/ response.kind # "ok"
                          \/ cache'[symbol] = {marketData(symbol, response)}
                          \/ ~SettlesWith(symbol, origin, response)]_vars

\* the last subscriber of a symbol has just left, its timer is stopped, and a
\* request the timer had sent is still outstanding
C21_Witness ==
    \E symbol \in MDSymbols :
        /\ mdRet.op = "unsubscribe"
        /\ subscribers[symbol] = {<<>>}
        /\ TimersOf(symbol) = {}
        /\ BagIn([symbol |-> symbol, origin |-> "tick"], inflight)

\* C22: on an enabled controller a buy or sell signal that isValidTrade
\* rejects, for the loss at its stop or for its notional, is dispatched like
\* any other: to the demo, Bybit or OKX execution, which records its order,
\* to the Binance one, which returns it, or to the unsupported-exchange error.
C22_RiskNeverConsulted ==
    [][\A signal \in TradingSignal, balance \in RiskBalances :
          ( /\ isEnabled
            /\ signal.action # "hold"
            /\ ~isValidTrade(signal, balance, DefaultMaxRiskPercentage)
            /\ executeSignal(signal) )
              => CASE credentials.exchange \in {"demo", "bybit", "okx"}
                        -> /\ ret'.outcome = "suspended"
                           /\ suspended' = Append(suspended, signal)
                   [] credentials.exchange = "binance"
                        -> /\ ret'.outcome = "value"
                           /\ \E o \in ret'.order : o.status = "filled"
                   [] OTHER -> ret'.outcome = "UnsupportedExchange"]_vars

\* the order of a signal that isValidTrade rejects against the reported
\* balance of 400 only for its loss at the stop has been recorded
C22_Witness ==
    /\ ret.op = "executeDemoTrade"
    /\ ~isValidTrade(ret.signal, 400, DefaultMaxRiskPercentage)
    /\ isValidTrade_NotionalOnly(ret.signal, 400, DefaultMaxRiskPercentage)
    /\ \E i \in 1..Len(orders) : orders[i] \in ret.order

\* C23: isValidTrade is true iff the loss at the stop, |price - stopLoss| *
\* quantity, is at most maxRiskPct percent of the balance and the notional,
\* price * quantity, is at most the balance (both bounds inclusive, maxRiskPct
\* being 2 when omitted); the call changes nothing but its result.
C23_IsValidTradeIff ==
    [][isValidTradeCall
          => LET pct == IF args.maxRiskPercentage = {} THEN 2
                        ELSE CHOOSE p \in args.maxRiskPercentage : TRUE
                 loss == IF args.price >= args.stopLoss
                           THEN (args.price - args.stopLoss) * args.quantity
                           ELSE (args.stopLoss - args.price) * args.quantity
             IN  /\ out' = {(100 * loss <= args.accountBalance * pct)
                               /\ (args.price * args.quantity <= args.accountBalance)}
                 /\ UNCHANGED <<atsVars, now, mdVars, issued, wsVars, args>>]_vars

\* a trade accepted with its loss exactly at the risk budget (1 = 2% of 50)
C23_Witness ==
    /\ args.fn = "isValidTrade"
    /\ out = {TRUE}
    /\ args.maxRiskPercentage = {}
    /\ args.accountBalance = 50
    /\ Abs(args.price - args.stopLoss) * args.quantity = 1

\* C24: calculatePositionSize and calculateRiskReward never return an
\* infinite or undefined number: with entryPrice = stopLoss they raise
\* InvalidRiskParametersError.
C24_ZeroStopDistanceRaises ==
    args.fn \in {"calculatePositionSize", "calculateRiskReward"}
        => \A v \in out :
              /\ v.kind \in {"finite", "InvalidRiskParametersError"}
              /\ args.entryPrice = args.stopLoss
                    => v.kind = "InvalidRiskParametersError"

\* the distance between two prices
Distance(a, b) == IF a >= b THEN a - b ELSE b - a

\* C25: with entryPrice # stopLoss, calculatePositionSize returns the number
\* (accountBalance * riskPercentage / 100) / |entryPrice - stopLoss|, the same
\* with entryPrice and stopLoss exchanged, and 40 for (10000, 2, 100, 95).
C25_PositionSize ==
    (args.fn = "calculatePositionSize" /\ args.entryPrice # args.stopLoss)
        => \A v \in out :
              /\ v.kind = "finite"
              /\ v.den > 0
              /\ v.num * 100 * Distance(args.entryPrice, args.stopLoss)
                    = v.den * args.accountBalance * args.riskPercentage
              /\ v = calculatePositionSize(args.accountBalance, args.riskPercentage,
                                           args.stopLoss, args.entryPrice)
              /\ ( /\ args.accountBalance = 10000
                   /\ args.riskPercentage = 2
                   /\ args.entryPrice = 100
                   /\ args.stopLoss = 95 )
                    => v = [kind |-> "finite", num |-> 40, den |-> 1]

\* the documented example, and a short set-up (stop above entry) of the same size
C25_Witness ==
    /\ args.fn = "calculatePositionSize"
    /\ args.accountBalance = 10000
    /\ args.riskPercentage = 2
    /\ args.entryPrice = 95
    /\ args.stopLoss = 100
    /\ out = {[kind |-> "finite", num |-> 40, den |-> 1]}

\* C26: with entryPrice # stopLoss, calculateRiskReward returns the number
\* |takeProfit - entryPrice| / |entryPrice - stopLoss|, for long and for short
\* set-ups alike, and 2 for (100, 95, 110).
C26_RiskReward ==
    (args.fn = "calculateRiskReward" /\ args.entryPrice # args.stopLoss)
        => \A v \in out :
              /\ v.kind = "finite"
              /\ v.den > 0
              /\ v.num * Distance(args.entryPrice, args.stopLoss)
                    = v.den * Distance(args.takeProfit, args.entryPrice)
              /\ (args.entryPrice = 100 /\ args.stopLoss = 95 /\ args.takeProfit = 110)
                    => v = [kind |-> "finite", num |-> 2, den |-> 1]

\* a short set-up: stop above the entry, target below it, reward twice the risk
C26_Witness ==
    /\ args.fn = "calculateRiskReward"
    /\ args.entryPrice = 2
    /\ args.stopLoss = 3
    /\ args.takeProfit = 0
    /\ out = {[kind |-> "finite", num |-> 2, den |-> 1]}

StrictlyIncreasing(prices) == \A i \in 1..(Len(prices) - 1) : prices[i] < prices[i + 1]
StrictlyDecreasing(prices) == \A i \in 1..(Len(prices) - 1) : prices[i] > prices[i + 1]

\* C27: for a price array longer than period + 1, calculateRSI (of either
\* class) returns 100 if the prices are strictly increasing and 0 if they are
\* strictly decreasing.
C27_RSIOfMonotonePrices ==
    (args.fn = "calculateRSI" /\ Len(args.prices) > args.period + 1)
        => \A v \in out :
              /\ StrictlyIncreasing(args.prices) => v = [kind |-> "finite", num |-> 100, den |-> 1]
              /\ StrictlyDecreasing(args.prices) => v = [kind |-> "finite", num |-> 0, den |-> 1]

\* four falling prices, period 2: the index is 0
C27_Witness ==
    /\ args.fn = "calculateRSI"
    /\ args.prices = <<4, 3, 2, 1>>
    /\ args.period = 2
    /\ out = {[kind |-> "finite", num |-> 0, den |-> 1]}

\* prices[lo] + ... + prices[hi]
RECURSIVE SumFromTo(_, _, _)
SumFromTo(prices, lo, hi) ==
    IF lo > hi THEN 0 ELSE prices[hi] + SumFromTo(prices, lo, hi - 1)

\* C28: calculateSMA(prices, period) is the mean of the last `period` prices
\* when there are at least that many (the mean of all of them when period is
\* the length), and the last price itself when there are fewer.
C28_SMA ==
    (args.fn = "calculateSMA" /\ Len(args.prices) > 0)
        => \A v \in out :
              LET n == Len(args.prices) IN
              /\ v.kind = "finite"
              /\ v.den > 0
              /\ n >= args.period
                    => v.num * args.period
                          = v.den * SumFromTo(args.prices, n - args.period + 1, n)
              /\ n = args.period
                    => v.num * n = v.den * SumFromTo(args.prices, 1, n)
              /\ n < args.period
                    => v = [kind |-> "finite", num |-> args.prices[n], den |-> 1]

\* mean of the last two of three prices, not of all three
C28_Witness ==
    /\ args.fn = "calculateSMA"
    /\ args.prices = <<4, 1, 2>>
    /\ args.period = 2
    /\ out = {[kind |-> "finite", num |-> 3, den |-> 2]}

\* C29: disable leaves the executions that are in their simulated latency
\* alone; each of them completes whatever the flag is by then, appends its
\* order to the ledger and returns it. An execution enters its latency only
\* from an executeSignal that saw the flag set, and the ledger grows by nothing
\* but the completion of such an execution.
C29_DisableKeepsInflight ==
    [][ /\ disable => UNCHANGED <<suspended, orders>>
        /\ Len(suspended') > Len(suspended)
              => /\ isEnabled
                 /\ ret'.op = "executeSignal"
                 /\ suspended' = Append(suspended, ret'.signal)
                 /\ UNCHANGED orders
        /\ orders' # orders /\ ret'.op # "cancelOrder"
              => /\ suspended # <<>>
                 /\ suspended' = Tail(suspended)
                 /\ ret'.op = "executeDemoTrade"
                 /\ ret'.signal = Head(suspended)
                 /\ \E order \in ret'.order :
                       /\ orders' = Append(orders, order)
                       /\ order.symbol = Head(suspended).symbol
                       /\ order.side = Head(suspended).action
        /\ (\E status \in {"filled", "failed"}, slip \in Slips :
                executeDemoTradeResume(status, slip))
              => /\ Len(orders') = Len(orders) + 1
                 /\ ret'.order = {orders'[Len(orders')]}
                 /\ UNCHANGED isEnabled
      ]_vars

\* an execution completed, and its order entered the ledger, after disable
C29_Witness ==
    /\ ~isEnabled
    /\ lastToggle = "disable"
    /\ ret.op = "executeDemoTrade"
    /\ orders # <<>>
    /\ ret.order = {orders[Len(orders)]}

\* C30: a response to a request that a later-issued request for the same
\* symbol has overtaken (the later one has already stored its snapshot) does
\* not replace the snapshot in the cache and is delivered to no subscriber.
C30_NoOutOfOrderOverwrite ==
    [][\A symbol \in MDSymbols, i \in 1..MaxInflight, response \in Responses :
          \A throwers \in SUBSET Range(invokedAfter(symbol, response, {})) :
              ( /\ settleIssued(symbol, i, response, throwers)
                /\ issued[symbol][i].overtaken )
                  => /\ cache'[symbol] = cache[symbol]
                     /\ mdRet'.invoked = <<>>
      ]_vars

\* C31: a callback that throws while being notified does not disturb the
\* fetch: every subscriber of the symbol is still invoked, the fetch resolves
\* with the snapshot it stored, and a fetch that ends in failure has left the
\* cache as it was.
C31_ThrowingSubscriberHarmless ==
    [][\A symbol \in MDSymbols, origin \in Origins :
          Settles(symbol, origin)
              => \A response \in Responses, throwers \in SUBSET Callbacks :
                    fetchSettle(symbol, origin, response, throwers)
                        => /\ response.kind = "ok"
                                 => /\ mdRet'.invoked = SubsOf(symbol)
                                    /\ mdRet'.outcome = "resolved"
                                    /\ mdRet'.data = {marketData(symbol, response)}
                           /\ mdRet'.outcome # "resolved" => cache' = cache]_vars

C33_NoPendingOrder ==
    \A o \in ret.order \cup Range(orders) :
        o.status \in {"filled", "failed", "cancelled"}

\* a hold order has just been returned, cancelled, with a filled and a failed
\* order in the ledger
C33_Witness ==
    /\ ret.op = "executeSignal"
    /\ ret.path = "hold"
    /\ \E o \in ret.order : o.status = "cancelled"
    /\ \E i, j \in 1..Len(orders) :
          orders[i].status = "filled" /\ orders[j].status = "failed"

\* C34: the snapshot a successful fetch stores for a symbol has a timestamp
\* strictly greater than that of the snapshot it replaces, also when both
\* fetches complete within the same millisecond of the clock.
C34_TimestampStrictlyIncreasing ==
    [][\A symbol \in MDSymbols, origin \in Origins :
          Settles(symbol, origin)
              => \A response \in Responses :
                    (response.kind = "ok" /\ SettlesWith(symbol, origin, response))
                        => \A old \in cache[symbol], new \in cache'[symbol] :
                              new.timestamp > old.timestamp]_vars

\* the positions of the ledger whose entry has the id
Matching(orderId) == {i \in 1..Len(orders) : orders[i].orderId = orderId}

\* C35: cancelOrder changes nothing but the status of the first ledger entry
\* with the id: the other entries, the other fields of that entry, the length
\* of the ledger, the enabled flag and the suspended executions stay, whether
\* the controller is enabled or not; cancelling an entry that is cancelled
\* already returns true and leaves the ledger as it is.
C35_CancelFrame ==
    [][\A orderId \in KnownIds :
          cancelOrder(orderId)
              => /\ Len(orders') = Len(orders)
                 /\ UNCHANGED <<isEnabled, credentials, suspended>>
                 /\ ret'.flag = (Matching(orderId) # {})
                 /\ \A i \in 1..Len(orders) :
                       IF i \in Matching(orderId)
                            /\ \A j \in Matching(orderId) : i <= j
                         THEN /\ orders'[i].status = "cancelled"
                              /\ orders'[i].orderId = orders[i].orderId
                              /\ orders'[i].symbol = orders[i].symbol
                              /\ orders'[i].side = orders[i].side
                              /\ orders'[i].quantity = orders[i].quantity
                              /\ orders'[i].price = orders[i].price
                              /\ orders'[i].timestamp = orders[i].timestamp
                              /\ orders'[i].fees = orders[i].fees
                              /\ orders'[i].executedQty = orders[i].executedQty
                              /\ orders'[i].executedPrice = orders[i].executedPrice
                              /\ orders[i].status = "cancelled"
                                    => ret'.flag /\ orders' = orders
                         ELSE orders'[i] = orders[i]]_vars

\* on a disabled controller the first of two entries with the same id was
\* cancelled a second time; the other entry is still filled
C35_Witness ==
    /\ ~isEnabled
    /\ ret.op = "cancelOrder"
    /\ ret.flag
    /\ ret.prev = "cancelled"
    /\ Len(orders) = 2
    /\ orders[1].orderId = orders[2].orderId
    /\ orders[1].orderId = ret.arg
    /\ orders[1].status = "cancelled"
    /\ orders[2].status = "filled"

\* C36: executeSignal tests the enabled flag, then for a hold signal, then the
\* exchange: with an unsupported exchange tag a hold signal on an enabled
\* controller returns the cancelled hold order, any other signal raises the
\* unsupported-exchange error, and on a disabled controller every signal
\* raises the not-enabled error.
C36_GuardOrder ==
    [][\A signal \in TradingSignal :
          (credentials.exchange \notin SupportedExchanges /\ executeSignal(signal))
              => /\ ret'.outcome =
                       IF ~isEnabled THEN "NotEnabled"
                       ELSE IF signal.action = "hold" THEN "value"
                       ELSE "UnsupportedExchange"
                 /\ (isEnabled /\ signal.action = "hold")
                       => \E o \in ret'.order :
                             /\ ret'.order = {o}
                             /\ o.status = "cancelled"
                             /\ o.symbol = signal.symbol
                 /\ ret'.outcome # "value" => ret'.order = {}
                 /\ UNCHANGED <<orders, suspended, isEnabled>>]_vars

\* a hold order was returned by a controller whose exchange is unsupported
C36_Witness ==
    /\ credentials.exchange \notin SupportedExchanges
    /\ isEnabled
    /\ ret.op = "executeSignal"
    /\ ret.signal.action = "hold"
    /\ ret.outcome = "value"
    /\ \E o \in ret.order : o.status = "cancelled"

\* the deltas among the last `period` ones in which the price fell
LosingDeltas(prices, period) ==
    {i \in 1..(Len(prices) - 1) :
        i >= Len(prices) - period /\ prices[i + 1] < prices[i]}

\* C37: calculateRSI returns 50 for fewer than period + 1 prices, and 100
\* whenever none of the last `period` deltas is a loss, as for a flat series of
\* at least period + 1 prices.
C37_RSINeutralAndNoLoss ==
    args.fn = "calculateRSI"
        => \A v \in out :
              IF Len(args.prices) < args.period + 1
                THEN v = [kind |-> "finite", num |-> 50, den |-> 1]
                ELSE LosingDeltas(args.prices, args.period) = {}
                        => v = [kind |-> "finite", num |-> 100, den |-> 1]

\* a flat series of three prices, period 2: the index is 100
C37_Witness ==
    /\ args.fn = "calculateRSI"
    /\ args.prices = <<2, 2, 2>>
    /\ args.period = 2
    /\ out = {[kind |-> "finite", num |-> 100, den |-> 1]}

\* C38: the calculateRSI of TechnicalAnalysisService, of TechnicalIndicators,
\* of the useMarketData module and of the DeepAnalysis page return the same
\* value for the same prices and period, also for fewer than period + 1 prices
\* and for prices without a losing delta.
C38_RSIImplementationsAgree ==
    args.fn \in {"calculateRSI", "localCalculateRSI"}
        => \A v \in out : v = calculateRSI(args.prices, args.period)

\* C39: wsConnections has an entry for a symbol exactly if a WebSocket for the
\* symbol is open, and the closure subscribeToPrice returned closes its own
\* WebSocket and no other, also with two subscriptions for one symbol.
C39_RegistryMatchesOpenStreams ==
    [][/\ \A symbol \in MDSymbols :
             wsConnections'[symbol] # {}
                 <=> \E ws \in 1..Len(sockets') :
                        sockets'[ws].symbol = symbol /\ sockets'[ws].open
       /\ \A ws \in 1..Len(sockets) :
             priceUnsubscribe(ws)
                 => /\ ~sockets'[ws].open
                    /\ \A other \in 1..Len(sockets) :
                          other # ws => sockets'[other] = sockets[other]]_vars

=========================================================================
